---- MODULE Spec2Model ----
(***************************************************************************)
(* A model of the reveal-merge algebra of witnesses and anchors            *)
(* (containers/anchors.rs), of the history replay of a consignment         *)
(* (containers/consignment.rs) and of the construction of a consignment    *)
(* by the inventory (persistence/inventory.rs).                            *)
(*                                                                         *)
(* Six specifications share the module's variables; each leaves the        *)
(* variables of the others at their idle values:                           *)
(*   SpecWitness  PubWitness / XPubWitness merge_reveal                    *)
(*   SpecBundle   WitnessBundle::merge_reveal                              *)
(*   SpecAnchor   AnchorSet::merge_reveal and known_bundle_ids             *)
(*   SpecHistory  Consignment::update_history                              *)
(*   SpecLookup   Inventory::transition                                    *)
(*   Spec         Inventory::consign and the read-back of its result       *)
(***************************************************************************)
EXTENDS Integers, Sequences, FiniteSets, TLC

VARIABLES
    \* SpecWitness: the two chain-tagged witnesses and the four merge results
    xa, xb, pubAB, pubBA, xAB, xBA,
    \* SpecBundle: two witness bundles and their merge
    wa, wb, wAB,
    \* SpecAnchor: three anchor sets, the two pairwise merges, the two
    \* bracketings of the merge of all three, and the bundle ids known to the
    \* first anchor set
    sa, sb, sc, sAB, sBC, sLeft, sRight, known,
    \* SpecHistory: the consignment, the height resolver, the history handed
    \* to update_history and what update_history returned
    cons, resolver, histIn, histOut,
    \* Spec: the inventory's store, the outpoints asked for, the results of
    \* the calls of consign made so far and the collections of the last call
    store, outpoints, results, run,
    \* SpecLookup: the operation id handed to Inventory::transition on the
    \* store, and what the call did
    asked, got

witnessVars == <<xa, xb, pubAB, pubBA, xAB, xBA, wa, wb, wAB>>

anchorVars == <<sa, sb, sc, sAB, sBC, sLeft, sRight, known>>

historyVars == <<cons, resolver, histIn, histOut>>

consignVars == <<store, outpoints, results, run, asked, got>>

vars == <<witnessVars, anchorVars, historyVars, consignVars>>

\* A result slot that holds nothing yet.
None == [st |-> "none"]

Ok(v) == [st |-> "ok", val |-> v]

Err(e) == [st |-> "err", err |-> e]

\* The elements of a set of integers in increasing order: the iteration
\* order of a BTreeSet / BTreeMap keyed by them.
RECURSIVE Sorted(_)
Sorted(S) ==
    IF S = {} THEN <<>>
    ELSE LET m == CHOOSE x \in S : \A y \in S : x <= y
         IN  <<m>> \o Sorted(S \ {m})

-----------------------------------------------------------------------------
(* Witnesses: containers/anchors.rs                                        *)

\* Largest transaction body (the data the transaction id commits to).
MaxTxid == 2

\* Largest witness-data variant of a transaction (not covered by the txid).
MaxWit == 1

\* bp::Tx, reduced to the part its id commits to and the part it does not.
Tx == [body : 1..MaxTxid, wit : 0..MaxWit]

\* Tx::txid(): the id commits to the body and not to the witness data.
TxTxid(tx) == tx.body

\* enum PubWitness { Txid(Txid), Tx(Tx) }
PubWitness ==
    [tag : {"Txid"}, txid : 1..MaxTxid] \cup [tag : {"Tx"}, tx : Tx]

\* PubWitness::txid
PubTxid(w) == IF w.tag = "Txid" THEN w.txid ELSE TxTxid(w.tx)

\* PubWitness::tx, as a presence test
HasTx(w) == w.tag = "Tx"

\* type XPubWitness = XChain<PubWitness>
XPubWitness == [chain : {"Bitcoin", "Liquid"}, w : PubWitness]

\* A merge whose mismatch error carries the two identifiers in the opposite
\* order.
PubMergeRevealSwapsIds(a, b) ==
    IF a.tag = "Txid" /\ b.tag = "Txid" /\ a.txid = b.txid
    THEN Ok(a)
    ELSE IF a.tag = "Txid" /\ b.tag = "Tx" /\ a.txid = TxTxid(b.tx)
    THEN Ok(b)
    ELSE IF a.tag = "Tx" /\ b.tag = "Tx" /\ TxTxid(a.tx) = TxTxid(b.tx)
    THEN Ok(a)
    ELSE Err([kind |-> "TxidMismatch", first |-> PubTxid(b), second |-> PubTxid(a)])

\* PubWitness::merge_reveal: the match arms in source order.  The second arm
\* of the source is the or-pattern (Txid, Tx) | (Txid, Tx): both alternatives
\* bind self to Txid and other to Tx, so (Tx, Txid) reaches the last arm.
PubMergeReveal(a, b) ==
    IF a.tag = "Txid" /\ b.tag = "Txid" /\ a.txid = b.txid
    THEN Ok(a)
    ELSE IF \/ (a.tag = "Txid" /\ b.tag = "Tx" /\ a.txid = TxTxid(b.tx))
            \/ (a.tag = "Txid" /\ b.tag = "Tx" /\ a.txid = TxTxid(b.tx))
    THEN Ok(b)
    ELSE IF a.tag = "Tx" /\ b.tag = "Tx" /\ TxTxid(a.tx) = TxTxid(b.tx)
    THEN Ok(a)
    ELSE Err([kind |-> "TxidMismatch", first |-> PubTxid(a), second |-> PubTxid(b)])

\* Result::map(XChain::Bitcoin) / map(XChain::Liquid)
MapChain(r, chain) ==
    IF r.st = "ok" THEN Ok([chain |-> chain, w |-> r.val]) ELSE r

\* A chain-tagged merge whose ChainMismatch carries the identifiers in
\* argument order, whichever chain each argument is on.
XMergeRevealByArgument(a, b) ==
    IF a.chain = b.chain
    THEN MapChain(PubMergeReveal(a.w, b.w), a.chain)
    ELSE Err([kind |-> "ChainMismatch", bitcoin |-> PubTxid(a.w), liquid |-> PubTxid(b.w)])

\* impl MergeReveal for XPubWitness
XMergeReveal(a, b) ==
    IF a.chain = "Bitcoin" /\ b.chain = "Bitcoin"
    THEN MapChain(PubMergeReveal(a.w, b.w), "Bitcoin")
    ELSE IF a.chain = "Liquid" /\ b.chain = "Liquid"
    THEN MapChain(PubMergeReveal(a.w, b.w), "Liquid")
    ELSE IF a.chain = "Bitcoin" /\ b.chain = "Liquid"
    THEN Err([kind |-> "ChainMismatch", bitcoin |-> PubTxid(a.w), liquid |-> PubTxid(b.w)])
    ELSE Err([kind |-> "ChainMismatch", bitcoin |-> PubTxid(b.w), liquid |-> PubTxid(a.w)])

-----------------------------------------------------------------------------
(* Anchor sets: containers/anchors.rs                                      *)

\* Largest message an anchor's multi-protocol commitment can reveal.
MaxMsg == 2

\* bp::dbc::Anchor<mpc::MerkleBlock, D>, reduced to what its commitment
\* reveals at the contract's leaf: 0 when the leaf is concealed, the
\* committed message otherwise.
Anchor == [mpc : 0..MaxMsg]

\* bp::dbc::Anchor::merge_reveal: the partial join of two proofs.  Two proofs
\* revealing different messages at the same leaf do not merge.
AnchorMergeReveal(p, q) ==
    IF p.mpc = 0 THEN Ok(q)
    ELSE IF q.mpc = 0 \/ q.mpc = p.mpc THEN Ok(p)
    ELSE Err([kind |-> "UnrelatedProof"])

\* AnchorSet::Tapret(anchor)
TapretSet(t) == [tag |-> "Tapret", tapret |-> t]

\* AnchorSet::Opret(anchor)
OpretSet(o) == [tag |-> "Opret", opret |-> o]

\* AnchorSet::Double { tapret, opret }
DoubleSet(t, o) == [tag |-> "Double", tapret |-> t, opret |-> o]

\* enum AnchorSet
AnchorSet ==
    {TapretSet(t) : t \in Anchor} \cup {OpretSet(o) : o \in Anchor}
        \cup {DoubleSet(t, o) : t \in Anchor, o \in Anchor}

\* AnchorSet::has_tapret
HasTapret(s) == s.tag \in {"Tapret", "Double"}

\* AnchorSet::has_opret
HasOpret(s) == s.tag \in {"Opret", "Double"}

\* (Tapret(anchor), Tapret(a)) => Ok(Tapret(anchor.merge_reveal(a)?))
MergeTaprets(anchor, a) ==
    LET r == AnchorMergeReveal(anchor, a)
    IN  IF r.st = "ok" THEN Ok(TapretSet(r.val)) ELSE r

\* (Opret(anchor), Opret(a)) => Ok(Opret(anchor.merge_reveal(a)?))
MergeOprets(anchor, a) ==
    LET r == AnchorMergeReveal(anchor, a)
    IN  IF r.st = "ok" THEN Ok(OpretSet(r.val)) ELSE r

\* A cross-mechanism merge that keeps the tapret proof only.
MergeCrossDropsOpret(tapret, opret) == Ok(TapretSet(tapret))

\* (Tapret(tapret), Opret(opret)) | (Opret(opret), Tapret(tapret))
\*     => Ok(Double { tapret, opret })
MergeCross(tapret, opret) == Ok(DoubleSet(tapret, opret))

\* A Double/Tapret merge that keeps the Double's tapret proof as it is.
MergeDoubleTapretKeepsOld(tapret, opret, t) == Ok(DoubleSet(tapret, opret))

\* (Double { tapret, opret }, Tapret(t)) | (Tapret(t), Double { tapret, opret })
\*     => Ok(Double { tapret: tapret.merge_reveal(t)?, opret })
MergeDoubleTapret(tapret, opret, t) ==
    LET r == AnchorMergeReveal(tapret, t)
    IN  IF r.st = "ok" THEN Ok(DoubleSet(r.val, opret)) ELSE r

\* (Double { tapret, opret }, Opret(o)) | (Opret(o), Double { tapret, opret })
\*     => Ok(Double { tapret, opret: opret.merge_reveal(o)? })
MergeDoubleOpret(tapret, opret, o) ==
    LET r == AnchorMergeReveal(opret, o)
    IN  IF r.st = "ok" THEN Ok(DoubleSet(tapret, r.val)) ELSE r

\* (Double { tapret, opret }, Double { tapret: t, opret: o })
\*     => Ok(Double { tapret: tapret.merge_reveal(t)?, opret: opret.merge_reveal(o)? })
MergeDoubles(tapret, opret, t, o) ==
    LET rt == AnchorMergeReveal(tapret, t)
        ro == AnchorMergeReveal(opret, o)
    IN  IF rt.st # "ok" THEN rt
        ELSE IF ro.st # "ok" THEN ro
        ELSE Ok(DoubleSet(rt.val, ro.val))

\* AnchorSet::merge_reveal: the match on (self, other)
AnchorSetMergeReveal(a, b) ==
    IF a.tag = "Tapret" /\ b.tag = "Tapret" THEN MergeTaprets(a.tapret, b.tapret)
    ELSE IF a.tag = "Opret" /\ b.tag = "Opret" THEN MergeOprets(a.opret, b.opret)
    ELSE IF a.tag = "Tapret" /\ b.tag = "Opret" THEN MergeCross(a.tapret, b.opret)
    ELSE IF a.tag = "Opret" /\ b.tag = "Tapret" THEN MergeCross(b.tapret, a.opret)
    ELSE IF a.tag = "Double" /\ b.tag = "Tapret"
    THEN MergeDoubleTapret(a.tapret, a.opret, b.tapret)
    ELSE IF a.tag = "Tapret" /\ b.tag = "Double"
    THEN MergeDoubleTapret(b.tapret, b.opret, a.tapret)
    ELSE IF a.tag = "Double" /\ b.tag = "Opret"
    THEN MergeDoubleOpret(a.tapret, a.opret, b.opret)
    ELSE IF a.tag = "Opret" /\ b.tag = "Double"
    THEN MergeDoubleOpret(b.tapret, b.opret, a.opret)
    ELSE MergeDoubles(a.tapret, a.opret, b.tapret, b.opret)

\* The protocol id (the contract's leaf) under which the commitments of the
\* anchors carry the contract's message.
ProtocolId == 1

\* mpc_proof.to_known_message_map().release(): the messages the proof
\* reveals, by protocol id
KnownMessageMap(p) == IF p.mpc = 0 THEN <<>> ELSE (ProtocolId :> p.mpc)

\* BTreeMap::extend: an entry of `other` replaces the entry of `map` that
\* has the same key
Extend(map, other) == other @@ map

\* map.into_values().map(|msg| BundleId::from_byte_array(msg.to_byte_array())):
\* the values in the order of their keys, each message read as a bundle id
IntoValues(map) ==
    LET keys == Sorted(DOMAIN map)
    IN  [i \in 1..Len(keys) |-> map[keys[i]]]

\* AnchorSet::known_bundle_ids
KnownBundleIds(s) ==
    IntoValues(
        IF s.tag = "Tapret" THEN KnownMessageMap(s.tapret)
        ELSE IF s.tag = "Opret" THEN KnownMessageMap(s.opret)
        ELSE Extend(KnownMessageMap(s.tapret), KnownMessageMap(s.opret)))

\* r.and_then(|s| s.merge_reveal(c)): a failed merge stays failed
MergeAfter(r, c) == IF r.st = "ok" THEN AnchorSetMergeReveal(r.val, c) ELSE r

\* r.and_then(|s| a.merge_reveal(s))
MergeBefore(a, r) == IF r.st = "ok" THEN AnchorSetMergeReveal(a, r.val) ELSE r

\* The operation ids a transition bundle of a witness bundle commits to.
BundleOps == {1, 2}

\* bp::dbc::Anchor<mpc::MerkleProof, DbcProof> of a witness bundle: the
\* proof of the message (the bundle id) committed for the contract.
ProofAnchor == [mpc : 1..MaxMsg]

\* struct WitnessBundle { pub_witness, anchor, bundle }: the bundle is the
\* one its anchor commits to, with some of its transitions revealed.
WitnessBundle ==
    {[pub_witness |-> x, anchor |-> p,
      bundle |-> [id |-> p.mpc, items |-> BundleOps, revealed |-> r]] :
        x \in XPubWitness, p \in ProofAnchor, r \in SUBSET BundleOps}

\* MergeReveal for TransitionBundle, on two copies of one bundle: the result
\* reveals what either copy revealed.
BundleMergeReveal(a, b) == Ok([a EXCEPT !.revealed = @ \cup b.revealed])

\* A merge of witness bundles that compares the anchors before it merges
\* the witnesses.
WitnessBundleMergeAnchorsFirst(a, b) ==
    LET w == XMergeReveal(a.pub_witness, b.pub_witness)
        m == BundleMergeReveal(a.bundle, b.bundle)
    IN  IF a.anchor # b.anchor
        THEN Err([kind |-> "AnchorsNonEqual", id |-> a.bundle.id])
        ELSE IF w.st # "ok" THEN w
        ELSE IF m.st # "ok" THEN m
        ELSE Ok([pub_witness |-> w.val, anchor |-> a.anchor, bundle |-> m.val])

\* WitnessBundle::merge_reveal
WitnessBundleMergeReveal(a, b) ==
    LET w == XMergeReveal(a.pub_witness, b.pub_witness)
        m == BundleMergeReveal(a.bundle, b.bundle)
    IN  IF w.st # "ok" THEN w
        ELSE IF a.anchor # b.anchor
        THEN Err([kind |-> "AnchorsNonEqual", id |-> a.bundle.id])
        ELSE IF m.st # "ok" THEN m
        ELSE Ok([pub_witness |-> w.val, anchor |-> a.anchor, bundle |-> m.val])

AnchorInit ==
    /\ sa \in AnchorSet
    /\ sb \in AnchorSet
    /\ sc \in AnchorSet
    /\ sAB = None
    /\ sBC = None
    /\ sLeft = None
    /\ sRight = None
    /\ known = None

AnchorIdle ==
    /\ sa = None
    /\ sb = None
    /\ sc = None
    /\ sAB = None
    /\ sBC = None
    /\ sLeft = None
    /\ sRight = None
    /\ known = None

\* a.merge_reveal(b)
AnchorMergeAB ==
    /\ sAB = None
    /\ sAB' = AnchorSetMergeReveal(sa, sb)
    /\ UNCHANGED <<sa, sb, sc, sBC, sLeft, sRight, known, witnessVars, historyVars, consignVars>>

\* b.merge_reveal(c)
AnchorMergeBC ==
    /\ sBC = None
    /\ sBC' = AnchorSetMergeReveal(sb, sc)
    /\ UNCHANGED <<sa, sb, sc, sAB, sLeft, sRight, known, witnessVars, historyVars, consignVars>>

\* a.merge_reveal(b)?.merge_reveal(c)
AnchorMergeLeft ==
    /\ sAB # None
    /\ sLeft = None
    /\ sLeft' = MergeAfter(sAB, sc)
    /\ UNCHANGED <<sa, sb, sc, sAB, sBC, sRight, known, witnessVars, historyVars, consignVars>>

\* a.merge_reveal(b.merge_reveal(c)?)
AnchorMergeRight ==
    /\ sBC # None
    /\ sRight = None
    /\ sRight' = MergeBefore(sa, sBC)
    /\ UNCHANGED <<sa, sb, sc, sAB, sBC, sLeft, known, witnessVars, historyVars, consignVars>>

\* a.known_bundle_ids().collect()
AnchorKnownBundleIds ==
    /\ known = None
    /\ known' = Ok(KnownBundleIds(sa))
    /\ UNCHANGED <<sa, sb, sc, sAB, sBC, sLeft, sRight, witnessVars, historyVars, consignVars>>

AnchorNext ==
    \/ AnchorMergeAB
    \/ AnchorMergeBC
    \/ AnchorMergeLeft
    \/ AnchorMergeRight
    \/ AnchorKnownBundleIds

-----------------------------------------------------------------------------
(* History replay: containers/consignment.rs                               *)

\* Largest number of anchored bundles in a consignment that is replayed.
MaxReplayBundles == 2

\* Largest number of state extensions in a consignment that is replayed.
MaxExtensions == 1

\* The genesis operation id.
GenesisId == 0

\* Extension::id of the consignment's extensions: negative, apart from the
\* ids of genesis (0) and of the transitions (positive).
ExtensionIds == {0 - e : e \in 1..MaxExtensions}

\* WitnessAnchor::new(height, txid)
WitnessAnchor(height, txid) == [height |-> height, txid |-> txid]

\* Ord for WitnessAnchor: by height, then by witness txid; a > b
AnchorGreater(a, b) ==
    a.height > b.height \/ (a.height = b.height /\ a.txid > b.txid)

\* A bundle item: a concealed transition, or a revealed one with the
\* operations its inputs spend from (input.prev_out.op).
BundleItems ==
    {[revealed |-> FALSE, inputs |-> {}]}
        \cup [revealed : {TRUE}, inputs : SUBSET ({GenesisId} \cup ExtensionIds)]

\* AnchoredBundle, reduced to anchor.txid and to the one item of its bundle;
\* the item of the k-th bundle is the transition with operation id k.
ReplayBundles == [txid : 1..MaxTxid, item : BundleItems]

\* ResolveHeight::resolve_height: the resolver confirms txid at height
\* 50 * txid, and fails for the txid `failing` (0: for none).
ResolveHeight(failing, txid) ==
    IF txid = failing
    THEN Err([kind |-> "ResolverError", txid |-> txid])
    ELSE Ok(50 * txid)

\* ContractHistory::with(schema_id, root_schema_id, contract_id, genesis):
\* the operations applied with their ordering keys, and the order in which
\* they were applied.
HistoryWith == [transitions |-> {}, extensions |-> {}, log |-> <<>>]

\* A contract history that an earlier update produced.
PriorHistory ==
    [transitions |-> {[op |-> 9, ord |-> WitnessAnchor(10, 9)]}, extensions |-> {},
     log |-> <<9>>]

\* ContractHistory::add_transition
AddTransition(h, op, ord) ==
    [h EXCEPT !.transitions = @ \cup {[op |-> op, ord |-> ord]},
              !.log = Append(@, op)]

\* ContractHistory::add_extension
AddExtension(h, ext, ord) ==
    [h EXCEPT !.extensions = @ \cup {[op |-> ext, ord |-> ord]},
              !.log = Append(@, ext)]

\* for (id, used) in &mut extension_idx { if *used { continue; } for input in
\* &transition.inputs { if input.prev_out.op == *id { ... } } }: an extension
\* already marked used is skipped; one that an input spends from is marked, and
\* its key lowered (if it has one) or inserted.
MarkExtensions(st, inputs, ord) ==
    LET hit == {id \in DOMAIN st.extension_idx :
                    ~st.extension_idx[id] /\ id \in inputs}
    IN  [st EXCEPT
            !.extension_idx = [id \in DOMAIN @ |-> @[id] \/ id \in hit],
            !.ordered_extensions =
                [id \in DOMAIN @ \cup hit |->
                    IF id \in hit
                    THEN IF id \in DOMAIN @
                         THEN IF AnchorGreater(@[id], ord) THEN ord ELSE @[id]
                         ELSE ord
                    ELSE @[id]]]

\* The body of `for anchored_bundle in &self.bundles`, for the k-th bundle
ReplayBundle(st, c, failing, k) ==
    LET ab == c.bundles[k]
        height == ResolveHeight(failing, ab.txid)
    IN  IF ~ab.item.revealed THEN st
        ELSE IF height.st = "err" THEN [st EXCEPT !.error = height]
        ELSE LET ord_txid == WitnessAnchor(height.val, ab.txid)
                 added == [st EXCEPT !.history = AddTransition(@, k, ord_txid)]
             IN  MarkExtensions(added, ab.item.inputs, ord_txid)

\* The loop over the bundles from the k-th on; `?` leaves it at the first error
RECURSIVE ReplayFrom(_, _, _, _)
ReplayFrom(st, c, failing, k) ==
    IF k > Len(c.bundles) \/ st.error # None THEN st
    ELSE ReplayFrom(ReplayBundle(st, c, failing, k), c, failing, k + 1)

\* A loop over the extensions that applies every extension of the
\* consignment, the unreferenced ones at the lowest key.
RECURSIVE ApplyEveryExtension(_, _, _, _)
ApplyEveryExtension(h, exts, ordered, i) ==
    IF i > Len(exts) THEN h
    ELSE ApplyEveryExtension(
            AddExtension(h, exts[i],
                         IF exts[i] \in DOMAIN ordered
                         THEN ordered[exts[i]]
                         ELSE WitnessAnchor(0, 0)),
            exts, ordered, i + 1)

\* for extension in &self.extensions { if let Some(ord_txid) = ... }
RECURSIVE ApplyExtensions(_, _, _, _)
ApplyExtensions(h, exts, ordered, i) ==
    IF i > Len(exts) THEN h
    ELSE ApplyExtensions(
            IF exts[i] \in DOMAIN ordered
            THEN AddExtension(h, exts[i], ordered[exts[i]])
            ELSE h,
            exts, ordered, i + 1)

\* An update that returns what it has applied so far when the resolver
\* fails.
UpdateHistoryPartial(c, history, failing) ==
    LET start == [history |-> IF history = None THEN HistoryWith ELSE history.val,
                  extension_idx |-> [id \in {c.extensions[i] : i \in 1..Len(c.extensions)}
                                        |-> FALSE],
                  ordered_extensions |-> <<>>,
                  error |-> None]
        st == ReplayFrom(start, c, failing, 1)
    IN  Ok(ApplyExtensions(st.history, c.extensions, st.ordered_extensions, 1))

\* Consignment::update_history
UpdateHistoryOf(c, history, failing) ==
    LET start == [history |-> IF history = None THEN HistoryWith ELSE history.val,
                  extension_idx |-> [id \in {c.extensions[i] : i \in 1..Len(c.extensions)}
                                        |-> FALSE],
                  ordered_extensions |-> <<>>,
                  error |-> None]
        st == ReplayFrom(start, c, failing, 1)
    IN  IF st.error # None THEN st.error
        ELSE Ok(ApplyExtensions(st.history, c.extensions, st.ordered_extensions, 1))

\* The sequences over S of length at most n
SeqUpTo(S, n) == UNION {[1..k -> S] : k \in 0..n}

\* The extensions of a consignment: the first n extension ids, in order
ExtensionLists == {[i \in 1..n |-> 0 - i] : n \in 0..MaxExtensions}

HistoryInit ==
    /\ cons \in [bundles : SeqUpTo(ReplayBundles, MaxReplayBundles),
                 extensions : ExtensionLists]
    /\ resolver \in 0..MaxTxid
    /\ histIn \in {None, Ok(PriorHistory)}
    /\ histOut = None

HistoryIdle ==
    /\ cons = None
    /\ resolver = 0
    /\ histIn = None
    /\ histOut = None

\* consignment.update_history(history, &mut resolver)
UpdateHistory ==
    /\ histOut = None
    /\ histOut' = UpdateHistoryOf(cons, histIn, resolver)
    /\ UNCHANGED <<cons, resolver, histIn, witnessVars, anchorVars, consignVars>>

HistoryNext == UpdateHistory

-----------------------------------------------------------------------------
(* Consignment construction: persistence/inventory.rs                      *)

\* Number of state transitions the store holds; their operation ids are
\* 1..NumOps, numbered so that a transition spends from lower ids only.
NumOps == 3

\* Largest number of previous outputs (inputs) of a transition.
MaxInputs == 1

\* The capacity of Consignment::bundles (LargeVec), scaled down.
MaxBundles == 2

\* The capacity of Consignment::terminals (SmallOrdMap), scaled down.
MaxTerminals == 1

Ops == 1..NumOps

\* Transition::prev_outs of operation op, as the producing operation ids in
\* the order of the input set: a transition may spend several outputs of one
\* operation, and its inputs may be empty (Inputs has no lower bound).
InputLists(op) ==
    {l \in SeqUpTo(GenesisId..(op - 1), MaxInputs) :
        \A i \in 1..(Len(l) - 1) : l[i] <= l[i + 1]}

\* The stores: for each transition its previous outputs; whether the
\* transitions are anchored in pairs (1 and 2 by one bundle, 3 and 4 by the
\* next) or each by a bundle of its own; and the operations with public
\* opouts.  Transition op assigns its state to outpoint op, the seal revealed.
RECURSIVE PrevMaps(_)
PrevMaps(n) ==
    IF n = 0 THEN {<<>>}
    ELSE {Append(f, l) : f \in PrevMaps(n - 1), l \in InputLists(n)}

\* A store whose indices hold: every lookup of a stored transition returns
\* its bundle with the transition revealed.
NoFault == [op |-> 0, how |-> "none"]

\* The ways a store can break that for one transition: the bundle it returns
\* holds the transition concealed, or does not hold it at all.
Faults == {NoFault} \cup [op : Ops, how : {"concealed", "stray"}]

Stores ==
    [prev : PrevMaps(NumOps), paired : BOOLEAN, public : {{}, {1}}, fault : {NoFault}]

\* The stores on which Inventory::transition is looked at by itself: the
\* stores above without public opouts, sound or with one fault.
LookupStores ==
    [prev : PrevMaps(NumOps), paired : BOOLEAN, public : {{}}, fault : Faults]

\* The id of the bundle that anchors transition op in the store
BundleIdOf(s, op) == IF s.paired THEN (op + 1) \div 2 ELSE op

\* The operation ids of the transitions that the bundle anchoring op commits
\* to: the keys of the TransitionBundle
BundleOpsOf(s, op) == {o \in Ops : BundleIdOf(s, o) = BundleIdOf(s, op)}

\* Inventory::anchored_bundle: the bundle anchoring a state transition, as
\* the bundle id, the operation ids the bundle holds and those among them
\* whose transition is revealed.  The copy returned for op reveals op; no
\* bundle anchors genesis or an unknown id.
AnchoredBundleOf(s, op) ==
    IF op \notin Ops
    THEN Err([kind |-> "InventoryError", why |-> "BundleAbsent", op |-> op])
    ELSE IF s.fault.op = op /\ s.fault.how = "concealed"
    THEN Ok([id |-> BundleIdOf(s, op), items |-> BundleOpsOf(s, op), revealed |-> {}])
    ELSE IF s.fault.op = op /\ s.fault.how = "stray"
    THEN Ok([id |-> BundleIdOf(s, op), items |-> BundleOpsOf(s, op) \ {op},
             revealed |-> {}])
    ELSE Ok([id |-> BundleIdOf(s, op), items |-> BundleOpsOf(s, op), revealed |-> {op}])

\* Inventory::transition: anchored_bundle(opid)?.bundle.remove(&opid)
\* .expect(..).and_then(|item| item.transition).expect(..)
TransitionOf(s, op) ==
    LET ab == AnchoredBundleOf(s, op)
    IN  IF ab.st = "err" THEN ab
        ELSE IF op \notin ab.val.items
        THEN [st |-> "panic",
              msg |-> "anchored bundle returned by opid doesn't contain that opid"]
        ELSE IF op \notin ab.val.revealed
        THEN [st |-> "panic",
              msg |-> "Stash::anchored_bundle should guarantee returning revealed transition"]
        ELSE Ok([id |-> op, prev |-> s.prev[op], seals |-> {op}])

\* Inventory::public_opouts, as the operations of the opouts
PublicOpouts(s) == s.public

\* Inventory::outpoint_opouts, as the operations of the opouts assigned to
\* the outpoints
OutpointOpouts(s, outs) == {op \in Ops : op \in outs}

\* Terminal::with(bundle_id, seal)
Terminal(bundle_id, seal) == [bundle_id |-> bundle_id, seal |-> seal]

\* TransitionBundle::reveal_transition
RevealTransition(ab, op) == [ab EXCEPT !.revealed = @ \cup {op}]

\* The body of `for opout in opouts` for the opout's operation op
CollectOne(st, s, op) ==
    LET transition == TransitionOf(s, op)
        ab == AnchoredBundleOf(s, op)
    IN  IF transition.st # "ok" THEN [st EXCEPT !.error = transition]
        ELSE IF ab.st # "ok" THEN [st EXCEPT !.error = ab]
        ELSE [st EXCEPT
                !.transitions = (op :> transition.val) @@ @,
                !.terminals = @ \cup {Terminal(ab.val.id, seal) :
                                        seal \in transition.val.seals},
                !.anchored_bundles = (op :> ab.val) @@ @]

\* 1. Collect initial set of anchored bundles: the loop over the opouts
RECURSIVE Collect(_, _, _)
Collect(st, s, ops) ==
    IF ops = <<>> \/ st.error # None THEN st
    ELSE Collect(CollectOne(st, s, Head(ops)), s, Tail(ops))

\* for transition in transitions.values() { ids.extend(prev_outs ops) }
RECURSIVE InitialIds(_, _)
InitialIds(transitions, ops) ==
    IF ops = <<>> THEN <<>>
    ELSE transitions[Head(ops)].prev \o InitialIds(transitions, Tail(ops))

\* A closure step that collects the popped operation and does not follow
\* its previous outputs.
ClosureStepStopsShort(st, s) ==
    LET id == st.ids[Len(st.ids)]
        rest == SubSeq(st.ids, 1, Len(st.ids) - 1)
        transition == TransitionOf(s, id)
        ab == AnchoredBundleOf(s, id)
        fetched == [st EXCEPT !.ids = rest, !.fetched[id] = @ + 1]
    IN  IF transition.st # "ok" THEN [fetched EXCEPT !.error = transition]
        ELSE IF ab.st # "ok" THEN [fetched EXCEPT !.error = ab]
        ELSE [fetched EXCEPT
                !.transitions = (id :> transition.val) @@ @,
                !.anchored_bundles =
                    IF id \in DOMAIN @
                    THEN [@ EXCEPT ![id] = RevealTransition(@, id)]
                    ELSE (id :> RevealTransition(ab.val, id)) @@ @]

\* The body of `while let Some(id) = ids.pop()`
ClosureStep(st, s) ==
    LET id == st.ids[Len(st.ids)]
        rest == SubSeq(st.ids, 1, Len(st.ids) - 1)
        transition == TransitionOf(s, id)
        ab == AnchoredBundleOf(s, id)
        fetched == [st EXCEPT !.ids = rest, !.fetched[id] = @ + 1]
    IN  IF transition.st # "ok" THEN [fetched EXCEPT !.error = transition]
        ELSE IF ab.st # "ok" THEN [fetched EXCEPT !.error = ab]
        ELSE [fetched EXCEPT
                !.ids = rest \o transition.val.prev,
                !.transitions = (id :> transition.val) @@ @,
                !.anchored_bundles =
                    IF id \in DOMAIN @
                    THEN [@ EXCEPT ![id] = RevealTransition(@, id)]
                    ELSE (id :> RevealTransition(ab.val, id)) @@ @]

\* 3. Collect all state transitions between terminals and genesis
RECURSIVE Closure(_, _)
Closure(st, s) ==
    IF st.ids = <<>> \/ st.error # None THEN st
    ELSE Closure(ClosureStep(st, s), s)

\* anchored_bundles.into_values(): the bundles in the order of their keys
BundleList(anchored_bundles) ==
    LET keys == Sorted(DOMAIN anchored_bundles)
    IN  [i \in 1..Len(keys) |-> anchored_bundles[keys[i]]]

\* An assembly that cuts the collections to their capacity.
AssembleTruncates(st) ==
    LET all == BundleList(st.anchored_bundles)
        kept == IF Len(all) > MaxBundles THEN SubSeq(all, 1, MaxBundles) ELSE all
    IN  Ok([bundles |-> kept,
            terminals |-> IF Cardinality(st.terminals) > MaxTerminals
                          THEN {} ELSE st.terminals])

\* Confined::try_from_iter(..).map_err(|_| TooManyBundles)?, then
\* Confined::try_from(terminals).map_err(|_| TooManyTerminals)?
Assemble(st) ==
    IF Cardinality(DOMAIN st.anchored_bundles) > MaxBundles
    THEN Err([kind |-> "TooManyBundles"])
    ELSE IF Cardinality(st.terminals) > MaxTerminals
    THEN Err([kind |-> "TooManyTerminals"])
    ELSE Ok([bundles |-> BundleList(st.anchored_bundles),
             terminals |-> st.terminals])

\* The collections of consign as it starts: the empty maps, set and stack
ConsignStart ==
    [anchored_bundles |-> <<>>, transitions |-> <<>>, terminals |-> {},
     ids |-> <<>>, fetched |-> [op \in GenesisId..NumOps |-> 0], error |-> None]

\* The collections of consign when it reaches the assembly of the
\* consignment, or when it leaves with an error
ConsignRun(s, outs) ==
    LET opouts == PublicOpouts(s) \cup OutpointOpouts(s, outs)
        collected == Collect(ConsignStart, s, Sorted(opouts))
        seeded == [collected EXCEPT
                      !.ids = InitialIds(collected.transitions,
                                         Sorted(DOMAIN collected.transitions))]
    IN  IF collected.error # None THEN collected ELSE Closure(seeded, s)

\* Inventory::consign: what it returns
ConsignResult(st) == IF st.error # None THEN st.error ELSE Assemble(st)

\* A consign that records the collected transitions as public in the store.
StoreAfterConsignPublishes(s, st) ==
    [s EXCEPT !.public = @ \cup DOMAIN st.transitions]

\* The store after consign: consign writes nothing to it
StoreAfterConsign(s, st) == s

\* Consignment::transition: the first bundle that holds opid decides
FirstHolding(bundles, opid) ==
    LET holding == {i \in 1..Len(bundles) : opid \in bundles[i].items}
    IN  IF holding = {} THEN 0 ELSE CHOOSE i \in holding : \A j \in holding : i <= j

\* ConsignmentApi::transition: item.transition.as_ref() of the first item
\* found under opid; None when no bundle holds opid
ConsignmentTransition(c, opid) ==
    LET i == FirstHolding(c.bundles, opid)
    IN  IF i = 0 THEN None
        ELSE IF opid \in c.bundles[i].revealed THEN Ok(opid)
        ELSE None

\* ConsignmentApi::operation: genesis, else the transition, else the
\* extension; consign puts no extensions into the consignment
ConsignmentOperation(c, opid) ==
    IF opid = GenesisId THEN Ok(GenesisId) ELSE ConsignmentTransition(c, opid)

\* ConsignmentApi::has_operation
HasOperation(c, opid) == ConsignmentOperation(c, opid) # None

ConsignInit ==
    /\ store \in Stores
    /\ outpoints \in SUBSET Ops
    /\ results = <<>>
    /\ run = ConsignStart
    /\ asked = None
    /\ got = None

ConsignIdle ==
    /\ store = None
    /\ outpoints = {}
    /\ results = <<>>
    /\ run = None
    /\ asked = None
    /\ got = None

LookupInit ==
    /\ store \in LookupStores
    /\ outpoints = {}
    /\ results = <<>>
    /\ run = None
    /\ asked = None
    /\ got = None

\* inventory.transition(opid), for a stored transition, genesis or an id the
\* store does not know
Transition ==
    /\ got = None
    /\ \E opid \in GenesisId..(NumOps + 1) :
          /\ asked' = opid
          /\ got' = TransitionOf(store, opid)
    /\ UNCHANGED <<store, outpoints, results, run, witnessVars, anchorVars, historyVars>>

LookupNext == Transition

\* inventory.consign(contract_id, outpoints), called at most twice
Consign ==
    /\ Len(results) < 2
    /\ LET st == ConsignRun(store, outpoints)
       IN  /\ run' = st
           /\ results' = Append(results, ConsignResult(st))
           /\ store' = StoreAfterConsign(store, st)
    /\ UNCHANGED <<outpoints, asked, got, witnessVars, anchorVars, historyVars>>

-----------------------------------------------------------------------------
(* Specifications                                                          *)

WitnessInit ==
    /\ xa \in XPubWitness
    /\ xb \in XPubWitness
    /\ pubAB = None
    /\ pubBA = None
    /\ xAB = None
    /\ xBA = None
    /\ wa = None
    /\ wb = None
    /\ wAB = None

WitnessIdle ==
    /\ xa = None
    /\ xb = None
    /\ pubAB = None
    /\ pubBA = None
    /\ xAB = None
    /\ xBA = None
    /\ wa = None
    /\ wb = None
    /\ wAB = None

BundleInit ==
    /\ xa = None
    /\ xb = None
    /\ pubAB = None
    /\ pubBA = None
    /\ xAB = None
    /\ xBA = None
    /\ wa \in WitnessBundle
    /\ wb \in WitnessBundle
    /\ wAB = None

\* a.merge_reveal(b) on the two witness bundles
WitnessBundleMerge ==
    /\ wAB = None
    /\ wAB' = WitnessBundleMergeReveal(wa, wb)
    /\ UNCHANGED <<xa, xb, pubAB, pubBA, xAB, xBA, wa, wb,
                   anchorVars, historyVars, consignVars>>

BundleNext == WitnessBundleMerge

InitBundle == BundleInit /\ AnchorIdle /\ HistoryIdle /\ ConsignIdle

SpecBundle == InitBundle /\ [][BundleNext]_vars

\* a.merge_reveal(b) on the two PubWitness values
PubMergeAB ==
    /\ pubAB = None
    /\ pubAB' = PubMergeReveal(xa.w, xb.w)
    /\ UNCHANGED <<xa, xb, pubBA, xAB, xBA, wa, wb, wAB, anchorVars, historyVars, consignVars>>

\* b.merge_reveal(a) on the two PubWitness values
PubMergeBA ==
    /\ pubBA = None
    /\ pubBA' = PubMergeReveal(xb.w, xa.w)
    /\ UNCHANGED <<xa, xb, pubAB, xAB, xBA, wa, wb, wAB, anchorVars, historyVars, consignVars>>

\* a.merge_reveal(b) on the chain-tagged witnesses
XMergeAB ==
    /\ xAB = None
    /\ xAB' = XMergeReveal(xa, xb)
    /\ UNCHANGED <<xa, xb, pubAB, pubBA, xBA, wa, wb, wAB, anchorVars, historyVars, consignVars>>

\* b.merge_reveal(a) on the chain-tagged witnesses
XMergeBA ==
    /\ xBA = None
    /\ xBA' = XMergeReveal(xb, xa)
    /\ UNCHANGED <<xa, xb, pubAB, pubBA, xAB, wa, wb, wAB, anchorVars, historyVars, consignVars>>

WitnessNext == PubMergeAB \/ PubMergeBA \/ XMergeAB \/ XMergeBA

InitWitness == WitnessInit /\ AnchorIdle /\ HistoryIdle /\ ConsignIdle

SpecWitness == InitWitness /\ [][WitnessNext]_vars

InitAnchor == AnchorInit /\ WitnessIdle /\ HistoryIdle /\ ConsignIdle

SpecAnchor == InitAnchor /\ [][AnchorNext]_vars

InitHistory == HistoryInit /\ WitnessIdle /\ AnchorIdle /\ ConsignIdle

SpecHistory == InitHistory /\ [][HistoryNext]_vars

InitLookup == LookupInit /\ WitnessIdle /\ AnchorIdle /\ HistoryIdle

SpecLookup == InitLookup /\ [][LookupNext]_vars

Init == ConsignInit /\ WitnessIdle /\ AnchorIdle /\ HistoryIdle

Next == Consign

Spec == Init /\ [][Next]_vars

-----------------------------------------------------------------------------
(* Claims on the witness merge                                             *)

\* C1: PubWitness::merge_reveal(a, b) of two witnesses with equal transaction
\* ids succeeds, in every variant combination and argument order, and the
\* result's txid() is the inputs' id.
C1_EqualIdsMerge ==
    /\ (pubAB # None /\ PubTxid(xa.w) = PubTxid(xb.w))
          => (pubAB.st = "ok" /\ PubTxid(pubAB.val) = PubTxid(xa.w))
    /\ (pubBA # None /\ PubTxid(xa.w) = PubTxid(xb.w))
          => (pubBA.st = "ok" /\ PubTxid(pubBA.val) = PubTxid(xa.w))

\* Both orders agree: both fail, or both succeed with the same variant and id.
SameOutcome(r1, r2) ==
    \/ (r1.st = "err" /\ r2.st = "err")
    \/ /\ r1.st = "ok"
       /\ r2.st = "ok"
       /\ r1.val.tag = r2.val.tag
       /\ PubTxid(r1.val) = PubTxid(r2.val)

\* A successful merge carries the full transaction when an input carried it.
Dominates(r, a, b) ==
    r.st = "ok" => ((HasTx(a) \/ HasTx(b)) => HasTx(r.val))

\* The chain-tagged result, unwrapped to its PubWitness.
Unwrap(r) == IF r.st = "ok" THEN Ok(r.val.w) ELSE r

\* C2: merge_reveal on PubWitness and on XPubWitness is commutative in outcome
\* (both orders fail, or both succeed with the same variant and id) and
\* information-increasing (the result carries the full transaction whenever
\* either input carried it).
C2_CommutativeIncreasing ==
    /\ (pubAB # None /\ pubBA # None) =>
          /\ SameOutcome(pubAB, pubBA)
          /\ Dominates(pubAB, xa.w, xb.w)
          /\ Dominates(pubBA, xa.w, xb.w)
    /\ (xAB # None /\ xBA # None) =>
          /\ SameOutcome(Unwrap(xAB), Unwrap(xBA))
          /\ (xAB.st = "ok" => xAB.val.chain = xBA.val.chain)
          /\ Dominates(Unwrap(xAB), xa.w, xb.w)
          /\ Dominates(Unwrap(xBA), xa.w, xb.w)

\* The witness of a and b that is on the given chain (they are on different
\* chains).
OnChain(chain, a, b) == IF a.chain = chain THEN a ELSE b

\* What a cross-chain merge must return: ChainMismatch with the Bitcoin-side
\* txid in `bitcoin` and the Liquid-side txid in `liquid`.
ChainMismatchOf(a, b) ==
    Err([kind |-> "ChainMismatch",
         bitcoin |-> PubTxid(OnChain("Bitcoin", a, b).w),
         liquid |-> PubTxid(OnChain("Liquid", a, b).w)])

\* The PubWitness result r wrapped in the chain tag: a merged witness gets
\* the tag, an error passes through.
Wrapped(r, chain) ==
    IF r.st = "ok" THEN Ok([chain |-> chain, w |-> r.val]) ELSE r

\* C14: XPubWitness::merge_reveal across chains is a hard error.  A Bitcoin
\* witness merged with a Liquid witness, in either argument order and also
\* with equal txids, fails with ChainMismatch whose `bitcoin` field is the
\* Bitcoin-side txid and whose `liquid` field is the Liquid-side txid; two
\* witnesses on the same chain give the PubWitness merge result wrapped in
\* that chain tag.
C14_CrossChainIsError ==
    /\ (xAB # None /\ xa.chain # xb.chain) => xAB = ChainMismatchOf(xa, xb)
    /\ (xBA # None /\ xa.chain # xb.chain) => xBA = ChainMismatchOf(xa, xb)
    /\ (xAB # None /\ pubAB # None /\ xa.chain = xb.chain)
          => xAB = Wrapped(pubAB, xa.chain)
    /\ (xBA # None /\ pubBA # None /\ xa.chain = xb.chain)
          => xBA = Wrapped(pubBA, xa.chain)

\* C14 witness: a Liquid witness was merged with a Bitcoin witness of a
\* different txid, Liquid first, and the error names each txid by its chain.
C14_Witness ==
    /\ xa.chain = "Liquid"
    /\ xb.chain = "Bitcoin"
    /\ PubTxid(xa.w) = 2
    /\ PubTxid(xb.w) = 1
    /\ xAB = Err([kind |-> "ChainMismatch", bitcoin |-> 1, liquid |-> 2])
    /\ xBA = xAB

\* C15: PubWitness::merge_reveal(a, b) with a.txid() # b.txid() fails, for
\* every variant combination, with TxidMismatch carrying a's identifier first
\* and b's second, and never returns a merged value.
C15_MismatchCarriesBothIds ==
    /\ (pubAB # None /\ PubTxid(xa.w) # PubTxid(xb.w))
          => pubAB = Err([kind |-> "TxidMismatch",
                          first |-> PubTxid(xa.w), second |-> PubTxid(xb.w)])
    /\ (pubBA # None /\ PubTxid(xa.w) # PubTxid(xb.w))
          => pubBA = Err([kind |-> "TxidMismatch",
                          first |-> PubTxid(xb.w), second |-> PubTxid(xa.w)])

\* C15 witness: a full transaction with id 1 was merged with the bare id 2,
\* in both orders, and both merges failed.
C15_Witness ==
    /\ xa.w.tag = "Tx"
    /\ xb.w.tag = "Txid"
    /\ PubTxid(xa.w) = 1
    /\ PubTxid(xb.w) = 2
    /\ pubAB.st = "err"
    /\ pubBA.st = "err"

-----------------------------------------------------------------------------
(* Claims on the anchor set merge                                          *)

\* What merge_reveal(a, b) must return for a Double and a single-mechanism
\* value: the matching side merged, the other side as it was.
DoubleWithSingle(d, s, r) ==
    IF s.tag = "Tapret"
    THEN LET m == AnchorMergeReveal(d.tapret, s.tapret)
         IN  IF m.st = "ok"
             THEN r = Ok(DoubleSet(m.val, d.opret))
             ELSE r.st = "err"
    ELSE LET m == AnchorMergeReveal(d.opret, s.opret)
         IN  IF m.st = "ok"
             THEN r = Ok(DoubleSet(d.tapret, m.val))
             ELSE r.st = "err"

\* C3: AnchorSet::merge_reveal never drops a proof.  A successful merge has a
\* tapret proof iff an input had one and an opret proof iff an input had one;
\* Tapret-only with Opret-only (either order) succeeds with a Double of the two
\* input proofs; a Double with a single-mechanism value merges the matching
\* side only and keeps the other side's proof.
C3_NoProofDropped ==
    sAB # None =>
        /\ sAB.st = "ok" =>
              /\ HasTapret(sAB.val) <=> (HasTapret(sa) \/ HasTapret(sb))
              /\ HasOpret(sAB.val) <=> (HasOpret(sa) \/ HasOpret(sb))
        /\ (sa.tag = "Tapret" /\ sb.tag = "Opret")
              => sAB = Ok(DoubleSet(sa.tapret, sb.opret))
        /\ (sa.tag = "Opret" /\ sb.tag = "Tapret")
              => sAB = Ok(DoubleSet(sb.tapret, sa.opret))
        /\ (sa.tag = "Double" /\ sb.tag # "Double") => DoubleWithSingle(sa, sb, sAB)
        /\ (sb.tag = "Double" /\ sa.tag # "Double") => DoubleWithSingle(sb, sa, sAB)

\* C3 witness: a Double was merged with a Tapret-only value that revealed the
\* message the Double's tapret proof concealed, and the opret proof survived.
C3_Witness ==
    /\ sa.tag = "Double"
    /\ sb.tag = "Tapret"
    /\ sa.tapret.mpc = 0
    /\ sb.tapret.mpc = 1
    /\ sa.opret.mpc = 2
    /\ sAB = Ok(DoubleSet([mpc |-> 1], [mpc |-> 2]))

\* C4: AnchorSet::merge_reveal is associative: merge(merge(a, b), c) and
\* merge(a, merge(b, c)) both fail or both succeed with equal results; for a
\* Tapret-only a and Opret-only b, merge(merge(a, b), a) and
\* merge(a, merge(a, b)) are the same Double.
C4_Associative ==
    /\ (sLeft # None /\ sRight # None) =>
          \/ (sLeft.st = "err" /\ sRight.st = "err")
          \/ (sLeft.st = "ok" /\ sRight.st = "ok" /\ sLeft.val = sRight.val)
    /\ (sAB # None /\ sa.tag = "Tapret" /\ sb.tag = "Opret") =>
          /\ MergeAfter(sAB, sa) = Ok(DoubleSet(sa.tapret, sb.opret))
          /\ MergeBefore(sa, sAB) = MergeAfter(sAB, sa)

\* C4 witness: both bracketings of Tapret, Opret, Tapret were computed, the
\* third value revealing what the first concealed, and gave the same Double.
C4_Witness ==
    /\ sa = TapretSet([mpc |-> 0])
    /\ sb = OpretSet([mpc |-> 2])
    /\ sc = TapretSet([mpc |-> 1])
    /\ sLeft = Ok(DoubleSet([mpc |-> 1], [mpc |-> 2]))
    /\ sRight = sLeft

\* The bundle ids known to a proof: the message it reveals, if any.
KnownTo(p) == IF p.mpc = 0 THEN {} ELSE {p.mpc}

\* C13: for a Double anchor, known_bundle_ids yields exactly the union of the
\* bundle ids known to the tapret proof and those known to the opret proof,
\* each id once: both ids when the two proofs hold different messages at the
\* same protocol key, one id when they hold the same message.
C13_UnionOfBothProofs ==
    (known # None /\ sa.tag = "Double") =>
        /\ {known.val[i] : i \in 1..Len(known.val)}
              = KnownTo(sa.tapret) \cup KnownTo(sa.opret)
        /\ \A i, j \in 1..Len(known.val) : known.val[i] = known.val[j] => i = j

-----------------------------------------------------------------------------
(* Claims on the history replay                                            *)

\* The bundles of the consignment whose revealed transition spends from ext.
Spenders(ext) ==
    {k \in 1..Len(cons.bundles) :
        cons.bundles[k].item.revealed /\ ext \in cons.bundles[k].item.inputs}

\* The ordering key update_history gives the transition of the k-th bundle.
KeyOf(k) ==
    WitnessAnchor(ResolveHeight(resolver, cons.bundles[k].txid).val,
                  cons.bundles[k].txid)

\* C5: update_history places each referenced extension at the minimum
\* (height, txid) key among the revealed transitions that spend one of its
\* outputs, in whatever order the bundles appear in the consignment.
C5_ExtensionAtMinimumKey ==
    (histOut # None /\ histOut.st = "ok") =>
        \A e \in histOut.val.extensions :
            \A k \in Spenders(e.op) : ~AnchorGreater(e.ord, KeyOf(k))

\* The resolver fails for the witness txid of a revealed transition.
ResolverFails ==
    \E k \in 1..Len(cons.bundles) :
        cons.bundles[k].item.revealed /\ cons.bundles[k].txid = resolver

\* History h contains everything history g contained, applied in the same
\* order before anything else.
Contains(h, g) ==
    /\ g.transitions \subseteq h.transitions
    /\ g.extensions \subseteq h.extensions
    /\ Len(g.log) <= Len(h.log)
    /\ SubSeq(h.log, 1, Len(g.log)) = g.log

\* C11: update_history is all-or-nothing.  If the resolver fails for the
\* witness txid of any revealed transition the call returns that resolver
\* error and no history; the history passed in is never changed; on success
\* the result contains everything the input contained.
C11_AllOrNothing ==
    [][/\ histIn' = histIn
       /\ IF ResolverFails
          THEN histOut' = Err([kind |-> "ResolverError", txid |-> resolver])
          ELSE /\ histOut'.st = "ok"
               /\ histIn # None => Contains(histOut'.val, histIn.val)
               /\ histIn = None => Contains(histOut'.val, HistoryWith)]_vars

\* C11 witness: with a prior history handed in, the resolver resolved the
\* first revealed transition's witness and failed on the second's, and the
\* call returned the error.
C11_Witness ==
    /\ histIn = Ok(PriorHistory)
    /\ Len(cons.bundles) = 2
    /\ cons.bundles[1].item.revealed
    /\ cons.bundles[2].item.revealed
    /\ cons.bundles[1].txid = 1
    /\ cons.bundles[2].txid = 2
    /\ resolver = 2
    /\ histOut = Err([kind |-> "ResolverError", txid |-> 2])

\* The positions of the log of h, after the first `base` entries, at which
\* operation op was applied.
AppliedAt(h, base, op) == {j \in (base + 1)..Len(h.log) : h.log[j] = op}

\* The number of entries the history handed to update_history had.
BaseLen == IF histIn = None THEN 0 ELSE Len(histIn.val.log)

-----------------------------------------------------------------------------
(* Claims on the construction of a consignment                             *)

\* The result of the last call of consign.
LastResult == results[Len(results)]

\* consign failed because no bundle anchors the genesis operation.
FailedAtGenesis(r) ==
    /\ r.st = "err"
    /\ r.err.kind = "InventoryError"
    /\ r.err.op = GenesisId

\* The bundle ids in a bundle list.
BundleIds(bundles) == {bundles[i].id : i \in 1..Len(bundles)}

\* C6: consign resolves through to genesis without error.  With genesis spent
\* by transition 1 (its own bundle) and transition 1 spent by transition 2
\* (its own bundle), consign for outpoint 2 returns both bundles and a
\* terminal with the seal of outpoint 2, and consign for outpoint 1 returns
\* the bundle of transition 1 only; reaching the genesis id in the backward
\* closure never makes consign fail.
C6_ResolvesToGenesis ==
    results # <<>> =>
        /\ ~FailedAtGenesis(LastResult)
        /\ (/\ store.prev[1] = <<GenesisId>>
            /\ store.prev[2] = <<1>>
            /\ ~store.paired
            /\ store.public = {}
            /\ outpoints = {2}) =>
                /\ LastResult.st = "ok"
                /\ BundleIds(LastResult.val.bundles) = {1, 2}
                /\ Terminal(2, 2) \in LastResult.val.terminals
        /\ (/\ store.prev[1] = <<GenesisId>>
            /\ store.prev[2] = <<1>>
            /\ ~store.paired
            /\ store.public = {}
            /\ outpoints = {1}) =>
                /\ LastResult.st = "ok"
                /\ BundleIds(LastResult.val.bundles) = {1}

\* C7: consign terminates on every acyclic previous-output graph, and its
\* backward closure fetches each operation id at most once, also when the
\* operation is reachable from the targets along several paths.
C7_FetchedAtMostOnce ==
    results # <<>> =>
        /\ (run.ids = <<>> \/ run.error # None)
        /\ \A op \in GenesisId..NumOps : run.fetched[op] <= 1

\* C8: the bundle list of a returned consignment is deduplicated by bundle
\* id: no two of its entries have the same bundle id.
C8_BundlesDeduplicated ==
    (results # <<>> /\ LastResult.st = "ok") =>
        \A i, j \in 1..Len(LastResult.val.bundles) :
            LastResult.val.bundles[i].id = LastResult.val.bundles[j].id => i = j

\* The faulty transition was asked for.
FaultHit == store.fault.op = asked /\ store.fault.how # "none"

\* C16: Inventory::transition(opid) reports store inconsistency as an error
\* value and never panics.  When anchored_bundle(opid) returns a bundle that
\* does not hold opid, or holds it concealed, transition returns an
\* internal-inconsistency error, other than the not-found error.
C16_ReportsNeverPanics ==
    got # None =>
        /\ got.st # "panic"
        /\ FaultHit => (got.st = "err" /\ got.err.why # "BundleAbsent")

\* The transitions revealed in the bundles of a consignment.
RevealedIn(c) == UNION {c.bundles[i].revealed : i \in 1..Len(c.bundles)}

\* The operations a revealed transition spends from (its previous outputs).
SpentBy(op) == {store.prev[op][i] : i \in 1..Len(store.prev[op])}

C18_CollectedReadBack ==
    (results # <<>> /\ LastResult.st = "ok") =>
        \A op \in DOMAIN run.transitions :
            /\ ConsignmentTransition(LastResult.val, op) = Ok(op)
            /\ HasOperation(LastResult.val, op)

\* The bundle ids and the terminals consign had collected at the assembly.
CollectedBundleIds == {run.anchored_bundles[op].id : op \in DOMAIN run.anchored_bundles}

\* Every collected bundle and terminal is in the returned consignment.
NothingCut ==
    LastResult.st = "ok" =>
        /\ Len(LastResult.val.bundles) = Cardinality(DOMAIN run.anchored_bundles)
        /\ \A op \in DOMAIN run.anchored_bundles :
              \E i \in 1..Len(LastResult.val.bundles) :
                  LastResult.val.bundles[i] = run.anchored_bundles[op]
        /\ LastResult.val.terminals = run.terminals

====
